---- MODULE Spec2Model ----
(***************************************************************************)
(* A model of NanoClient (src/src/client/nano-client.ts): the per-action   *)
(* methods, the request envelope built by _buildRPCBody, the single POST   *)
(* issued by _send, and the settling of the promise _send returns.         *)
(*                                                                         *)
(* JavaScript values are records of one shape (kind, fields, text, tok).   *)
(* An object is the sequence of its <<key, value>> entries in insertion    *)
(* order; a value inside an object is the token of its JSON literal.  A    *)
(* JSON text is the sequence of its tokens.                                *)
(***************************************************************************)
EXTENDS Naturals, Sequences, FiniteSets

VARIABLES nodeAddress, requestHeaders, defaultHeaders,
          calls, requests, jobs, arrivals, settled

vars == <<nodeAddress, requestHeaders, defaultHeaders,
          calls, requests, jobs, arrivals, settled>>

\* ------------------------------------------------------------------ bounds

\* Calls made on the one client in the concurrent specification.
MaxCalls == 2
\* The largest `count` a caller passes; counts are drawn from 1..MaxCount.
MaxCount == 2

\* ------------------------------------------------------------ JS values

UNDEF == "undefined"
CYCLIC == "[Circular]"
NAN == "NaN"

ObjV(o) == [kind |-> "object", fields |-> o, text |-> <<>>, tok |-> ""]
StrV(t) == [kind |-> "string", fields |-> <<>>, text |-> t, tok |-> ""]
ScalarV(t) == [kind |-> "scalar", fields |-> <<>>, text |-> <<>>, tok |-> t]
NullV == [kind |-> "null", fields |-> <<>>, text |-> <<>>, tok |-> ""]
UndefV == [kind |-> "undefined", fields |-> <<>>, text |-> <<>>, tok |-> ""]
ErrV(n) == [kind |-> "error", fields |-> <<>>, text |-> <<>>, tok |-> n]

\* ------------------------------------------------------------ JS objects

Keys(o) == {o[i][1] : i \in 1..Len(o)}
Has(o, k) == k \in Keys(o)
Get(o, k) == IF Has(o, k) THEN o[CHOOSE i \in 1..Len(o) : o[i][1] = k][2] ELSE UNDEF

\* o[k] = v: an existing key keeps its place and takes the new value.
Put(o, k, v) ==
    IF Has(o, k)
    THEN [i \in 1..Len(o) |-> IF o[i][1] = k THEN <<k, v>> ELSE o[i]]
    ELSE Append(o, <<k, v>>)

\* {...o, ...p} and Object.assign(o, p): p's own entries written over o in order.
RECURSIVE Spread(_, _)
Spread(o, p) ==
    IF p = <<>> THEN o ELSE Spread(Put(o, p[1][1], p[1][2]), Tail(p))

\* The key -> value mapping of an object, its entry order forgotten.
AsMap(o) == [k \in Keys(o) |-> Get(o, k)]

\* ToBoolean of a value read from a property: undefined, "", 0, false, null are falsy.
Truthy(v) == v \notin {UNDEF, "''", "0", "false", "null", NAN}

\* ------------------------------------------------------------------ JSON

RECURSIVE Members(_)
Members(o) ==
    IF o = <<>> THEN <<>>
    ELSE LET k == o[1][1]
             v == o[1][2]
             rest == Members(Tail(o))
         IN IF v = UNDEF THEN rest
            ELSE <<k, ":", IF v = NAN THEN "null" ELSE v>>
                 \o (IF rest = <<>> THEN <<>> ELSE <<",">> \o rest)

\* JSON.stringify of a flat object: a cyclic value throws, an undefined-valued
\* member is left out, NaN is written as null.
StringifyThrows(o) == \E i \in 1..Len(o) : o[i][2] = CYCLIC
JSONstringify(o) == <<"{">> \o Members(o) \o <<"}">>

Punct == {"{", "}", ":", ","}
ScalarToks == {"true", "false", "0", "1", "2", "3", "5"}

ParseFail == [ok |-> FALSE, val |-> ErrV("SyntaxError")]

RECURSIVE ParseMembers(_, _)
ParseMembers(t, acc) ==
    IF Len(t) < 3 \/ t[1] \in Punct \/ t[2] # ":" \/ t[3] \in Punct
    THEN ParseFail
    ELSE LET o == Put(acc, t[1], t[3])
         IN IF Len(t) = 3 THEN [ok |-> TRUE, val |-> ObjV(o)]
            ELSE IF t[4] # "," THEN ParseFail
            ELSE ParseMembers(SubSeq(t, 5, Len(t)), o)

\* JSON.parse of a text whose top-level value is an object, null, a number or a
\* boolean (a top-level string literal is not among the modelled texts).
JSONparse(t) ==
    IF Len(t) = 0 THEN ParseFail
    ELSE IF Len(t) = 1
    THEN IF t[1] = "null" THEN [ok |-> TRUE, val |-> NullV]
         ELSE IF t[1] \in ScalarToks THEN [ok |-> TRUE, val |-> ScalarV(t[1])]
         ELSE ParseFail
    ELSE IF t[1] # "{" \/ t[Len(t)] # "}" THEN ParseFail
    ELSE IF Len(t) = 2 THEN [ok |-> TRUE, val |-> ObjV(<<>>)]
    ELSE ParseMembers(SubSeq(t, 2, Len(t) - 1), <<>>)

\* ------------------------------------------------------- the client's methods

\* A default parameter value (`count = 1`): taken when the argument is undefined.
Default(v, d) == IF v = UNDEF THEN d ELSE v

\* What a method hands to _send.
SendArgs(method, params) == [method |-> method, params |-> params]

account_balance(account) == SendArgs("account_balance", <<<<"account", account>>>>)
account_block_count(account) == SendArgs("account_block_count", <<<<"account", account>>>>)
account_get(key) == SendArgs("account_get", <<<<"key", key>>>>)
account_history(account, count, params) ==
    SendArgs("account_history",
             Spread(<<<<"account", account>>, <<"count", Default(count, "1")>>>>, params))
account_info(account, params) ==
    SendArgs("account_info", Spread(<<<<"account", account>>>>, params))
account_key(account) == SendArgs("account_key", <<<<"account", account>>>>)
account_representative(account) ==
    SendArgs("account_representative", <<<<"account", account>>>>)
account_weight(account) == SendArgs("account_weight", <<<<"account", account>>>>)
available_supply == SendArgs("available_supply", <<>>)
block(hash) == SendArgs("block", <<<<"hash", hash>>>>)
blocks(hashes) == SendArgs("blocks", <<<<"hashes", hashes>>>>)
block_account(hash) == SendArgs("block_account", <<<<"hash", hash>>>>)
block_count == SendArgs("block_count", <<>>)
blocks_info(hashes, source, pending) ==
    SendArgs("blocks_info",
             <<<<"hashes", hashes>>, <<"source", Default(source, "false")>>,
               <<"pending", Default(pending, "false")>>>>)
block_count_type == SendArgs("block_count_type", <<>>)
chain(blk, count) ==
    SendArgs("chain", <<<<"block", blk>>, <<"count", Default(count, "1")>>>>)
frontiers(account, count) ==
    SendArgs("frontiers", <<<<"account", account>>, <<"count", Default(count, "1")>>>>)
frontiers_count == SendArgs("frontiers_count", <<>>)
history(hash, count) ==
    SendArgs("history", <<<<"hash", hash>>, <<"count", Default(count, "1")>>>>)
mrai_from_raw(amount) == SendArgs("mrai_from_raw", <<<<"amount", amount>>>>)
mrai_to_raw(amount) == SendArgs("mrai_to_raw", <<<<"amount", amount>>>>)
krai_from_raw(amount) == SendArgs("krai_from_raw", <<<<"amount", amount>>>>)
krai_to_raw(amount) == SendArgs("krai_to_raw", <<<<"amount", amount>>>>)
rai_from_raw(amount) == SendArgs("rai_from_raw", <<<<"amount", amount>>>>)
rai_to_raw(amount) == SendArgs("rai_to_raw", <<<<"amount", amount>>>>)
ledger(account, count, representative, weight, pending, sorting) ==
    SendArgs("ledger",
             <<<<"account", account>>, <<"count", Default(count, "1")>>,
               <<"representative", Default(representative, "false")>>,
               <<"weight", Default(weight, "false")>>,
               <<"pending", Default(pending, "false")>>,
               <<"sorting", Default(sorting, "false")>>>>)
block_create(type, key, account, representative, source) ==
    SendArgs("block_create",
             <<<<"type", type>>, <<"key", key>>, <<"account", account>>,
               <<"representative", representative>>, <<"source", source>>>>)
process(blk) == SendArgs("process", <<<<"block", blk>>>>)
representativesForwarding(count, sorting) ==
    SendArgs("representatives",
             <<<<"count", Default(count, "1")>>, <<"sorting", Default(sorting, "false")>>>>)
representatives(count, sorting) == SendArgs("representatives", <<>>)

\* A call's arguments: the positional ones (a missing trailing one is undefined)
\* and the trailing options object (empty when none is passed).
Arg(a, i) == IF i <= Len(a.pos) THEN a.pos[i] ELSE UNDEF

MethodNames ==
    {"account_balance", "account_block_count", "account_get", "account_history",
     "account_info", "account_key", "account_representative", "account_weight",
     "available_supply", "block", "blocks", "block_account", "block_count",
     "blocks_info", "block_count_type", "chain", "frontiers", "frontiers_count",
     "history", "mrai_from_raw", "mrai_to_raw", "krai_from_raw", "krai_to_raw",
     "rai_from_raw", "rai_to_raw", "ledger", "block_create", "process",
     "representatives"}

\* client[m](...a): the method named m applied to the arguments a.
CallMethod(m, a) ==
    CASE m = "account_balance" -> account_balance(Arg(a, 1))
      [] m = "account_block_count" -> account_block_count(Arg(a, 1))
      [] m = "account_get" -> account_get(Arg(a, 1))
      [] m = "account_history" -> account_history(Arg(a, 1), Arg(a, 2), a.opts)
      [] m = "account_info" -> account_info(Arg(a, 1), a.opts)
      [] m = "account_key" -> account_key(Arg(a, 1))
      [] m = "account_representative" -> account_representative(Arg(a, 1))
      [] m = "account_weight" -> account_weight(Arg(a, 1))
      [] m = "available_supply" -> available_supply
      [] m = "block" -> block(Arg(a, 1))
      [] m = "blocks" -> blocks(Arg(a, 1))
      [] m = "block_account" -> block_account(Arg(a, 1))
      [] m = "block_count" -> block_count
      [] m = "blocks_info" -> blocks_info(Arg(a, 1), Arg(a, 2), Arg(a, 3))
      [] m = "block_count_type" -> block_count_type
      [] m = "chain" -> chain(Arg(a, 1), Arg(a, 2))
      [] m = "frontiers" -> frontiers(Arg(a, 1), Arg(a, 2))
      [] m = "frontiers_count" -> frontiers_count
      [] m = "history" -> history(Arg(a, 1), Arg(a, 2))
      [] m = "mrai_from_raw" -> mrai_from_raw(Arg(a, 1))
      [] m = "mrai_to_raw" -> mrai_to_raw(Arg(a, 1))
      [] m = "krai_from_raw" -> krai_from_raw(Arg(a, 1))
      [] m = "krai_to_raw" -> krai_to_raw(Arg(a, 1))
      [] m = "rai_from_raw" -> rai_from_raw(Arg(a, 1))
      [] m = "rai_to_raw" -> rai_to_raw(Arg(a, 1))
      [] m = "ledger" ->
            ledger(Arg(a, 1), Arg(a, 2), Arg(a, 3), Arg(a, 4), Arg(a, 5), Arg(a, 6))
      [] m = "block_create" ->
            block_create(Arg(a, 1), Arg(a, 2), Arg(a, 3), Arg(a, 4), Arg(a, 5))
      [] m = "process" -> process(Arg(a, 1))
      [] m = "representatives" -> representatives(Arg(a, 1), Arg(a, 2))

\* ---------------------------------------------------------- _buildRPCBody

\* JSON.stringify({action: action, ...params}); a failure of JSON.stringify is
\* rethrown as new Error(e).
_buildRPCBody(action, params) ==
    LET envelope == Spread(<<<<"action", action>>>>, params)
    IN IF StringifyThrows(envelope)
       THEN [threw |-> TRUE, err |-> ErrV("Error: TypeError"), text |-> <<>>]
       ELSE [threw |-> FALSE, err |-> UndefV, text |-> JSONstringify(envelope)]

\* ------------------------------------------------------------------ _send

Pending == [state |-> "pending", value |-> UndefV]

\* What the first call of resolve or reject does to a promise; later calls do nothing.
Settle(p, state, value) ==
    IF p.state = "pending" THEN [state |-> state, value |-> value] ELSE p

\* new Promise(executor): an exception thrown inside the executor never reaches
\* the caller: the constructor rejects the new promise with it and returns.
NewPromiseUncaught(exec) ==
    [threw |-> exec.threw, promise |-> Pending]
NewPromise(exec) ==
    [threw |-> FALSE,
     promise |-> IF exec.threw THEN Settle(Pending, "rejected", exec.err) ELSE Pending]

\* Object.assign(target, source): writes source's entries into target, returns target.
ObjectAssign(target, source) ==
    [result |-> Spread(target, source), target |-> Spread(target, source)]

\* The synchronous part of _send.  The request config's `data` is evaluated
\* before `headers`: when _buildRPCBody throws, Object.assign and axios.request
\* are not reached.
_sendTwice(method, params) ==
    LET body == _buildRPCBody(method, params)
        merged == ObjectAssign(defaultHeaders, requestHeaders)
        p == NewPromise(body)
        req == [method |-> "POST", url |-> nodeAddress,
                data |-> body.text, headers |-> merged.result]
    IN [threw |-> p.threw, promise |-> p.promise,
        issued |-> IF body.threw THEN <<>> ELSE <<req, req>>,
        defaultHeaders |-> IF body.threw THEN defaultHeaders ELSE merged.target]
_send(method, params) ==
    LET body == _buildRPCBody(method, params)
        merged == ObjectAssign(defaultHeaders, requestHeaders)
        p == NewPromise(body)
        req == [method |-> "POST", url |-> nodeAddress,
                data |-> body.text, headers |-> merged.result]
    IN [threw |-> p.threw, promise |-> p.promise,
        issued |-> IF body.threw THEN <<>> ELSE <<req>>,
        defaultHeaders |-> IF body.threw THEN defaultHeaders ELSE merged.target]

\* The callback given to .then: what it does with response.data.
\*   response.data.error        throws a TypeError on null and undefined
\*   reject(response.data)      when that property is truthy
\*   resolve(JSON.parse(data))  for a string, resolve(data) otherwise
Threw(e) == [threw |-> TRUE, err |-> e, settle |-> "none", value |-> UndefV]
Returned(how, v) == [threw |-> FALSE, err |-> UndefV, settle |-> how, value |-> v]

OnResponseNoParse(data) ==
    IF data.kind \in {"null", "undefined"} THEN Threw(ErrV("TypeError"))
    ELSE IF data.kind = "object" /\ Truthy(Get(data.fields, "error"))
    THEN Returned("rejected", data)
    ELSE Returned("fulfilled", data)
OnResponse(data) ==
    IF data.kind \in {"null", "undefined"} THEN Threw(ErrV("TypeError"))
    ELSE IF data.kind = "object" /\ Truthy(Get(data.fields, "error"))
    THEN Returned("rejected", data)
    ELSE IF data.kind = "string"
    THEN LET parsed == JSONparse(data.text)
         IN IF parsed.ok THEN Returned("fulfilled", parsed.val) ELSE Threw(parsed.val)
    ELSE Returned("fulfilled", data)

\* A promise-reaction job: the reaction of `.then(callback)` to the transport's
\* promise (stage "then") or of `.catch(reject)` to the promise .then returned
\* (stage "catch"); ok says whether the promise reacted to was fulfilled.
Job(c, stage, ok, value) == [call |-> c, stage |-> stage, ok |-> ok, value |-> value]

\* The resolve and reject a reaction calls are those of its own call's promise,
\* captured by the closures created in that call's executor.
ResolverShared(c) == Len(calls)
Resolver(c) == c

\* Running the `.then` reaction: the callback on a response, a pass-through of
\* the rejection on a transport failure.  An exception in the callback rejects
\* the promise .then returned.
ThenReaction(j) ==
    IF ~j.ok THEN [settle |-> "none", value |-> UndefV,
                   next |-> <<Job(j.call, "catch", FALSE, j.value)>>]
    ELSE LET h == OnResponse(j.value)
         IN IF h.threw
            THEN [settle |-> "none", value |-> UndefV,
                  next |-> <<Job(j.call, "catch", FALSE, h.err)>>]
            ELSE [settle |-> h.settle, value |-> h.value,
                  next |-> <<Job(j.call, "catch", TRUE, UndefV)>>]

\* Running the `.catch(reject)` reaction: reject(reason) on a rejection, nothing
\* on a fulfilment.
CatchReactionMissing(j) ==
    [settle |-> "none", value |-> UndefV, next |-> <<>>]
CatchReaction(j) ==
    IF j.ok THEN [settle |-> "none", value |-> UndefV, next |-> <<>>]
    ELSE [settle |-> "rejected", value |-> j.value, next |-> <<>>]

Reaction(j) == IF j.stage = "then" THEN ThenReaction(j) ELSE CatchReaction(j)

\* --------------------------------------------------------------- the inputs

DefaultHeaders == <<<<"content-type", "application/json">>>>

Urls == {"http://node-a:7076", "http://node-b:7076"}

\* requestHeaders a caller configures: none, an extra header, an overriding one.
HeaderChoices ==
    {<<>>,
     <<<<"authorization", "'k1'">>>>,
     <<<<"content-type", "text/plain">>>>}

NumTok == <<"1", "2", "3", "4", "5">>

\* The values a positional parameter of each declared type is called with;
\* undefined stands for an omitted parameter that has a default.
ArgValues(type) ==
    CASE type = "string" -> {"'nano_1abc'"}
      [] type = "amount" -> {"5", "'5'"}
      [] type = "count" -> {UNDEF} \cup {NumTok[i] : i \in 1..MaxCount}
      [] type = "boolean" -> {UNDEF, "true", "false"}

\* The declared positional parameters of each method.
Signature(m) ==
    CASE m \in {"available_supply", "block_count", "block_count_type",
                "frontiers_count"} -> <<>>
      [] m \in {"account_history", "chain", "frontiers", "history"} ->
            <<"string", "count">>
      [] m \in {"mrai_from_raw", "mrai_to_raw", "krai_from_raw", "krai_to_raw",
                "rai_from_raw", "rai_to_raw"} -> <<"amount">>
      [] m = "blocks_info" -> <<"string", "boolean", "boolean">>
      [] m = "ledger" ->
            <<"string", "count", "boolean", "boolean", "boolean", "boolean">>
      [] m = "block_create" -> <<"string", "string", "string", "string", "string">>
      [] m = "representatives" -> <<"count", "boolean">>
      [] OTHER -> <<"string">>

\* Options objects passed as the trailing `params` argument.
OptionObjects(m) ==
    CASE m = "account_history" ->
            {<<>>,
             <<<<"raw", "true">>>>,
             <<<<"raw", "true">>, <<"head", "'H1'">>>>,
             <<<<"reverse", "false">>, <<"offset", "2">>>>,
             <<<<"raw", UNDEF>>>>,
             <<<<"account_filter", CYCLIC>>>>,
             <<<<"count", "5">>>>,
             <<<<"action", "'stop'">>>>}
      [] m = "account_info" ->
            {<<>>,
             <<<<"representative", "true">>>>,
             <<<<"weight", "true">>, <<"pending", "false">>>>,
             <<<<"account", "'nano_3xyz'">>>>}
      [] OTHER -> {<<>>}

RECURSIVE ArgSeqs(_)
ArgSeqs(sig) ==
    IF sig = <<>> THEN {<<>>}
    ELSE {<<v>> \o r : v \in ArgValues(sig[1]), r \in ArgSeqs(Tail(sig))}

ArgsOf(m) == {[pos |-> p, opts |-> o] : p \in ArgSeqs(Signature(m)), o \in OptionObjects(m)}

\* The calls made in the concurrent specification.
SendInputs ==
    {[method |-> "account_balance", args |-> [pos |-> <<"'nano_1abc'">>, opts |-> <<>>]],
     [method |-> "account_info",
      args |-> [pos |-> <<"'nano_1abc'">>, opts |-> <<<<"pending", CYCLIC>>>>]]}

\* Bodies a node answers with, as the transport hands them over.
BalanceBody == <<<<"balance", "'100'">>, <<"pending", "'5'">>>>
ErrorBody == <<<<"error", "'Account not found'">>>>
EmptyErrorBody == <<<<"error", "''">>>>

ResponseData ==
    {ObjV(BalanceBody), ObjV(ErrorBody), ObjV(EmptyErrorBody),
     StrV(JSONstringify(BalanceBody)), StrV(JSONstringify(ErrorBody)),
     StrV(<<"<html>">>), StrV(<<>>), NullV}

\* Failures of the HTTP exchange: no connection, a non-2xx status.
TransportErrors == {ErrV("ECONNREFUSED"), ErrV("ERR_BAD_RESPONSE")}

\* ------------------------------------------------------------ state machine

\* The state right after `new NanoClient({url, requestHeaders})`.
Init ==
    /\ nodeAddress \in Urls
    /\ requestHeaders \in HeaderChoices
    /\ defaultHeaders = DefaultHeaders
    /\ calls = <<>>
    /\ requests = <<>>
    /\ jobs = <<>>
    /\ arrivals = <<>>
    /\ settled = <<>>

\* The caller invokes method m with arguments a: the method and the synchronous
\* part of _send run to completion.
Invoke(m, a) ==
    /\ Len(calls) < MaxCalls
    /\ LET args == CallMethod(m, a)
           r == _send(args.method, args.params)
           id == Len(calls) + 1
       IN /\ calls' = Append(calls,
                [method |-> m, args |-> a, callerHeaders |-> requestHeaders,
                 threw |-> r.threw, promise |-> r.promise,
                 attempts |-> IF r.promise.state = "pending" THEN 0 ELSE 1,
                 transport |-> IF r.issued = <<>> THEN "none" ELSE "pending",
                 received |-> UndefV])
          /\ requests' = requests \o [i \in 1..Len(r.issued) |->
                                        [call |-> id, req |-> r.issued[i]]]
          /\ defaultHeaders' = r.defaultHeaders
          /\ settled' = IF r.promise.state = "pending" THEN settled
                        ELSE Append(settled, id)
    /\ UNCHANGED <<nodeAddress, requestHeaders, jobs, arrivals>>

\* The caller assigns the public field requestHeaders between calls.
SetRequestHeaders(h) ==
    /\ h # requestHeaders
    /\ requestHeaders' = h
    /\ UNCHANGED <<nodeAddress, defaultHeaders, calls, requests, jobs, arrivals, settled>>

\* The transport's promise of call c settles in a task of its own, after the
\* reactions of the task before it have run: fulfilled with a response ...
TransportRespond(c, data) ==
    /\ jobs = <<>>
    /\ calls[c].transport = "pending"
    /\ calls' = [calls EXCEPT ![c].transport = "fulfilled", ![c].received = data]
    /\ jobs' = <<Job(c, "then", TRUE, data)>>
    /\ arrivals' = Append(arrivals, c)
    /\ UNCHANGED <<nodeAddress, requestHeaders, defaultHeaders, requests, settled>>

\* ... or rejected with the transport's error.
TransportFail(c, e) ==
    /\ jobs = <<>>
    /\ calls[c].transport = "pending"
    /\ calls' = [calls EXCEPT ![c].transport = "rejected", ![c].received = e]
    /\ jobs' = <<Job(c, "then", FALSE, e)>>
    /\ arrivals' = Append(arrivals, c)
    /\ UNCHANGED <<nodeAddress, requestHeaders, defaultHeaders, requests, settled>>

\* The oldest pending reaction runs.
RunReaction ==
    /\ jobs # <<>>
    /\ LET j == Head(jobs)
           r == Reaction(j)
           t == Resolver(j.call)
       IN /\ jobs' = Tail(jobs) \o r.next
          /\ calls' = IF r.settle = "none" THEN calls
                      ELSE [calls EXCEPT ![t].promise = Settle(@, r.settle, r.value),
                                         ![t].attempts = @ + 1]
          /\ settled' = IF r.settle # "none" /\ calls[t].promise.state = "pending"
                        THEN Append(settled, t) ELSE settled
    /\ UNCHANGED <<nodeAddress, requestHeaders, defaultHeaders, requests, arrivals>>

Next ==
    \/ \E i \in SendInputs : Invoke(i.method, i.args)
    \/ \E c \in 1..Len(calls), d \in ResponseData : TransportRespond(c, d)
    \/ \E c \in 1..Len(calls), e \in TransportErrors : TransportFail(c, e)
    \/ RunReaction

Spec == Init /\ [][Next]_vars

\* Reactions are run by the job queue whenever one is pending.
FairSpec == Spec /\ WF_vars(RunReaction)

\* Calls on a client whose requestHeaders the caller reassigns between them.
NextConfig ==
    \/ \E i \in SendInputs : Invoke(i.method, i.args)
    \/ \E h \in HeaderChoices : SetRequestHeaders(h)

SpecConfig == Init /\ [][NextConfig]_vars

\* One call of one method, over every method and its arguments.
ApplyMethod(m, a) == calls = <<>> /\ Invoke(m, a)

NextBody == \E m \in MethodNames : \E a \in ArgsOf(m) : ApplyMethod(m, a)

SpecBody == Init /\ [][NextBody]_vars

\* =================================================================== claims

CallIds == 1..Len(calls)
IsSettled(c) == calls[c].promise.state # "pending"
RequestsOf(c) == {i \in 1..Len(requests) : requests[i].call = c}

\* A transport's body once JSON-decoded: a string is decoded, anything else is
\* already the decoded value.
Decoded(data) ==
    IF data.kind = "string" THEN JSONparse(data.text) ELSE [ok |-> TRUE, val |-> data]
HasErrorField(v) == v.kind = "object" /\ Has(v.fields, "error")
GotResponse(c) == calls[c].transport = "fulfilled"

\* An argument that JSON cannot represent is among the call's arguments.
HasCyclicArg(a) ==
    \/ \E i \in 1..Len(a.pos) : a.pos[i] = CYCLIC
    \/ \E i \in 1..Len(a.opts) : a.opts[i][2] = CYCLIC

\* C1 (as claimed): a response whose decoded body has a top-level `error` field
\* never resolves the call, and rejects it with that decoded body, whatever the
\* field's value and whether the body arrives decoded or as a JSON string.
C1_ErrorBodyRejects ==
    \A c \in CallIds :
        LET d == Decoded(calls[c].received)
        IN (GotResponse(c) /\ d.ok /\ HasErrorField(d.val)) =>
              /\ calls[c].promise.state # "fulfilled"
              /\ calls[c].promise.state = "rejected" => calls[c].promise.value = d.val

\* C2 (as claimed): a call with a parameter JSON cannot represent throws at the
\* call itself, returns no rejected promise, and issues no request.
C2_ThrowsSynchronously ==
    \A c \in CallIds :
        HasCyclicArg(calls[c].args) =>
            /\ calls[c].threw
            /\ calls[c].promise.state # "rejected"
            /\ RequestsOf(c) = {}

\* C2 (amended): such a call returns normally with a promise that is already
\* rejected with the Error wrapping JSON.stringify's exception; no request is
\* issued for it and its promise is never settled otherwise.
C2_RejectsWithoutRequest ==
    \A c \in CallIds :
        HasCyclicArg(calls[c].args) =>
            /\ ~calls[c].threw
            /\ calls[c].promise = [state |-> "rejected", value |-> ErrV("Error: TypeError")]
            /\ calls[c].transport = "none"
            /\ RequestsOf(c) = {}

C2_Witness ==
    \E c \in CallIds :
        /\ HasCyclicArg(calls[c].args)
        /\ calls[c].promise.state = "rejected"
        /\ \E d \in CallIds : d # c /\ RequestsOf(d) # {}

\* C3: every call whose envelope serializes has issued exactly one POST to the
\* configured endpoint, a call whose envelope does not has issued none, and no
\* call has a second request in any state: not after a node error, a transport
\* failure or a failure in handling the response.
C3_OneRequestPerCall ==
    /\ \A c \in CallIds :
          Cardinality(RequestsOf(c)) = IF HasCyclicArg(calls[c].args) THEN 0 ELSE 1
    /\ \A i \in 1..Len(requests) :
          /\ requests[i].call \in CallIds
          /\ requests[i].req.method = "POST"
          /\ requests[i].req.url = nodeAddress

C3_Witness ==
    /\ jobs = <<>>
    /\ \E c \in CallIds :
          /\ calls[c].transport = "rejected"
          /\ calls[c].promise.state = "rejected"
          /\ Cardinality(RequestsOf(c)) = 1
    /\ \E c \in CallIds :
          /\ GotResponse(c)
          /\ calls[c].promise.state = "rejected"
          /\ Cardinality(RequestsOf(c)) = 1

\* What a call's own transport outcome settles its promise with.
OwnOutcome(c) ==
    LET r == calls[c].received
    IN IF calls[c].transport = "rejected" THEN [state |-> "rejected", value |-> r]
       ELSE LET h == OnResponse(r)
            IN IF h.threw THEN [state |-> "rejected", value |-> h.err]
               ELSE [state |-> h.settle, value |-> h.value]

\* C4: calls in flight together have a request each; a call's promise stays
\* pending until its own transport outcome has arrived and is then settled by
\* that outcome alone; promises settle in the order the outcomes arrive.
C4_IndependentCalls ==
    /\ \A c, d \in CallIds :
          (c # d /\ calls[c].transport # "none" /\ calls[d].transport # "none") =>
              /\ RequestsOf(c) # {}
              /\ RequestsOf(d) # {}
              /\ RequestsOf(c) \cap RequestsOf(d) = {}
    /\ \A c \in CallIds :
          /\ calls[c].transport = "pending" => ~IsSettled(c)
          /\ (calls[c].transport \in {"fulfilled", "rejected"} /\ IsSettled(c)) =>
                calls[c].promise = OwnOutcome(c)
    /\ SelectSeq(settled, LAMBDA c : calls[c].transport # "none")
          = SelectSeq(arrivals, LAMBDA c : IsSettled(c))

C4_Witness ==
    /\ Len(calls) = 2
    /\ arrivals = <<2, 1>>
    /\ settled = <<2, 1>>
    /\ GotResponse(1)
    /\ GotResponse(2)
    /\ calls[1].promise.state = "fulfilled"
    /\ calls[2].promise.state = "rejected"
    /\ calls[1].promise.value # calls[2].promise.value

\* C5 (as claimed): no step of a method call, synchronous or asynchronous,
\* changes the endpoint, the caller-supplied headers or the default headers.
C5_CallsLeaveConfigUnchanged ==
    [][calls' # calls => UNCHANGED <<nodeAddress, requestHeaders, defaultHeaders>>]_vars

\* C6 (as claimed): the headers of every request are the default content-type
\* overlaid with the caller-supplied headers as they were at that call, and
\* nothing else.
C6_HeadersAreDefaultsPlusCallers ==
    \A i \in 1..Len(requests) :
        AsMap(requests[i].req.headers)
            = AsMap(Spread(DefaultHeaders, calls[requests[i].call].callerHeaders))

\* The documented positional parameters of each action and their defaults
\* ("undefined": none), from the method catalogue of the specification.
Param(name, default) == [name |-> name, default |-> default]
DocumentedParams(m) ==
    CASE m \in {"available_supply", "block_count", "block_count_type",
                "frontiers_count"} -> <<>>
      [] m = "account_get" -> <<Param("key", UNDEF)>>
      [] m \in {"account_history", "frontiers"} ->
            <<Param("account", UNDEF), Param("count", "1")>>
      [] m = "chain" -> <<Param("block", UNDEF), Param("count", "1")>>
      [] m = "history" -> <<Param("hash", UNDEF), Param("count", "1")>>
      [] m \in {"block", "block_account"} -> <<Param("hash", UNDEF)>>
      [] m = "blocks" -> <<Param("hashes", UNDEF)>>
      [] m = "blocks_info" ->
            <<Param("hashes", UNDEF), Param("source", "false"), Param("pending", "false")>>
      [] m \in {"mrai_from_raw", "mrai_to_raw", "krai_from_raw", "krai_to_raw",
                "rai_from_raw", "rai_to_raw"} -> <<Param("amount", UNDEF)>>
      [] m = "ledger" ->
            <<Param("account", UNDEF), Param("count", "1"),
              Param("representative", "false"), Param("weight", "false"),
              Param("pending", "false"), Param("sorting", "false")>>
      [] m = "block_create" ->
            <<Param("type", UNDEF), Param("key", UNDEF), Param("account", UNDEF),
              Param("representative", UNDEF), Param("source", UNDEF)>>
      [] m = "process" -> <<Param("block", UNDEF)>>
      [] m = "representatives" -> <<Param("count", "1"), Param("sorting", "false")>>
      [] OTHER -> <<Param("account", UNDEF)>>

\* The body the claim describes: the action tag, every positional parameter
\* with its default, and every supplied option field that is neither of those.
DocumentedBody(m, a) ==
    LET ps == DocumentedParams(m)
        positional == {i \in 1..Len(ps) : Default(Arg(a, i), ps[i].default) # UNDEF}
        names == {ps[i].name : i \in positional}
        options == {k \in Keys(a.opts) : Get(a.opts, k) # UNDEF} \ (names \cup {"action"})
    IN [k \in {"action"} \cup names \cup options |->
          IF k = "action" THEN m
          ELSE IF k \in names
          THEN LET i == CHOOSE i \in positional : ps[i].name = k
               IN Default(Arg(a, i), ps[i].default)
          ELSE Get(a.opts, k)]

SentBody(i) == JSONparse(requests[i].req.data)

\* C7 (as claimed): every request body is the documented action tag plus exactly
\* the supplied parameters merged with the documented defaults; nothing supplied
\* is dropped and no option field replaces the tag or a positional parameter.
C7_BodyIsTagPlusParams ==
    \A i \in 1..Len(requests) :
        LET c == calls[requests[i].call]
        IN /\ SentBody(i).ok
           /\ SentBody(i).val.kind = "object"
           /\ AsMap(SentBody(i).val.fields) = DocumentedBody(c.method, c.args)

HandlingThrows(data) ==
    data.kind \in {"null", "undefined"} \/ (data.kind = "string" /\ ~JSONparse(data.text).ok)

C10_SettledAtMostOnce ==
    \A c \in CallIds :
        /\ calls[c].attempts <= 1
        /\ IsSettled(c) <=> calls[c].attempts = 1
        /\ (calls[c].transport = "rejected" /\ IsSettled(c)) =>
              /\ calls[c].promise = [state |-> "rejected", value |-> calls[c].received]
              /\ calls[c].promise.value.kind = "error"
        /\ (GotResponse(c) /\ HandlingThrows(calls[c].received) /\ IsSettled(c)) =>
              calls[c].promise.state = "rejected"

C10_OutcomeIsFinal ==
    \A c \in CallIds : IsSettled(c) => calls'[c].promise = calls[c].promise

\* C10: resolve or reject is called at most once per call and a settled promise
\* keeps its outcome; a transport failure rejects with the transport's error, a
\* response whose handling throws rejects; and once the transport has settled
\* the promise is eventually settled.
C10_SettledExactlyOnce ==
    /\ []C10_SettledAtMostOnce
    /\ [][C10_OutcomeIsFinal]_vars
    /\ \A c \in 1..MaxCalls :
          (c \in CallIds /\ calls[c].transport \in {"fulfilled", "rejected"})
              ~> (c \in CallIds /\ IsSettled(c))

C10_Witness ==
    /\ jobs = <<>>
    /\ \E c \in CallIds :
          /\ GotResponse(c)
          /\ calls[c].received = NullV
          /\ calls[c].promise = [state |-> "rejected", value |-> ErrV("TypeError")]
    /\ \E c \in CallIds :
          /\ calls[c].transport = "rejected"
          /\ calls[c].promise = [state |-> "rejected", value |-> ErrV("ECONNREFUSED")]

====
